---- MODULE Spec2Model ----
(***************************************************************************)
(* NetworkClient (src/src/net/NetworkClient.cpp, NetworkClient.h): the     *)
(* per-connection endpoint of a length-prefixed datagram protocol.         *)
(*                                                                         *)
(* Threads.  Public operations run on a caller ("user") thread and hold    *)
(* m_lock for their whole body.  Completion callbacks (receive_size,       *)
(* receive_data, handle_disconnect) run on the reactor thread and do NOT   *)
(* take m_lock themselves; only the calls they make to is_connected() and  *)
(* async_receive() do.  upc / rpc are the positions of the two threads.    *)
(* The user thread holds m_lock exactly while upc # "idle"; reactor steps  *)
(* that need m_lock are atomic and guarded by upc = "idle".                *)
(***************************************************************************)
EXTENDS Integers, Sequences, FiniteSets, TLC

VARIABLES
    \* ---- the endpoint's fields (NetworkClient.h:80-102)
    m_socket,             \* "null" or "socket"
    m_secure_socket,      \* "null" or "stream"
    m_ssl_enabled,
    m_remote, m_local,
    m_disconnect_handled, m_local_disconnect, m_disconnect_error,
    m_size_buf,           \* PrefixWidth bytes
    m_data_buf,           \* the allocation: a sequence as long as its capacity
    m_data_size, m_is_data,
    \* ---- the transport and the reactor
    sock_open,            \* tcp::socket::is_open() of the transport object
    reads,                \* reads handed to the reactor, oldest first
    wire,                 \* bytes the peer has written and nobody has read yet
    sent,                 \* bytes this endpoint has written
    \* ---- positions of the two threads
    upc, uec,             \* user thread inside disconnect(ec)
    rpc, rec,             \* reactor thread inside a completion callback
    life,                 \* "alive", "destroyed", or how the process died
    \* ---- what the callers and the consumer observe
    last_call,            \* the last public call and its outcome
    ncalls,
    delivered,            \* the arguments of receive_datagram, in call order
    notifications,        \* the calls of receive_disconnect, in call order
    \* ---- history used to state properties
    peerSent,             \* the payloads the peer framed, in order
    discStarted,          \* the causes of the disconnect(ec) calls begun
    discDone,             \* how many disconnect(ec) calls have returned
    hdEntry,              \* discStarted / discDone when handle_disconnect began
    shortRead,            \* <<>>, or what had happened by the first short read
    maxLenSeen,           \* largest decoded prefix so far
    capHigh               \* largest capacity m_data_buf ever had

endpoint == <<m_socket, m_secure_socket, m_ssl_enabled, m_remote, m_local>>
record   == <<m_disconnect_handled, m_local_disconnect, m_disconnect_error>>
rxstate  == <<m_size_buf, m_data_buf, m_data_size, m_is_data>>
history  == <<peerSent, discStarted, discDone, hdEntry, shortRead, maxLenSeen, capHigh>>
vars == <<endpoint, record, rxstate, sock_open, reads, wire, sent, upc, uec,
          rpc, rec, life, last_call, ncalls, delivered, notifications, history>>

-----------------------------------------------------------------------------
\* Bounds of the model.
MaxEvents  == 3      \* peer messages plus public calls after the first initialize()
MaxLen     == 2      \* longest payload the peer sends

\* Program constants.
PrefixWidth == 2     \* sizeof(dgsize_t)
ByteBase    == 256   \* values of a uint8_t
Uninit      == -1    \* a byte nobody has written yet

Success       == "success"          \* a default-constructed error_code
EPIPE         == "broken_pipe"
EBADF         == "bad_descriptor"
ENOTCONN      == "not_connected"
ECANCELED     == "operation_aborted"
EOF           == "eof"
LocalCauses   == {Success, "timed_out"}     \* what callers pass to disconnect
NoAddr        == "0.0.0.0:0"                \* a default-constructed endpoint
PeerAddr      == "peer:7199"
SelfAddr      == "self:40000"

Max(a, b) == IF a >= b THEN a ELSE b

-----------------------------------------------------------------------------
\* Byte order.  `be` is the byte order of the build's host.

RECURSIVE LowFirst(_, _)
LowFirst(v, w) ==
    IF w = 0 THEN <<>> ELSE <<v % ByteBase>> \o LowFirst(v \div ByteBase, w - 1)

RECURSIVE LowFirstValue(_)
LowFirstValue(b) ==
    IF b = <<>> THEN 0 ELSE Head(b) + ByteBase * LowFirstValue(Tail(b))

Reverse(s) == [i \in 1..Len(s) |-> s[Len(s) + 1 - i]]

\* (uint8_t*)&len : the object representation of a dgsize_t
ObjectBytes(v, be) ==
    IF be THEN Reverse(LowFirst(v, PrefixWidth)) ELSE LowFirst(v, PrefixWidth)

\* *(dgsize_t*)m_size_buf
ObjectValue(b, be) == LowFirstValue(IF be THEN Reverse(b) ELSE b)

\* swap_le: identity on a little-endian host, a byte swap on a big-endian one
swap_le(v, be) ==
    IF be THEN LowFirstValue(Reverse(LowFirst(v, PrefixWidth))) ELSE v

\* dg->size(), a dgsize_t
DgSize(dg) == Len(dg) % (ByteBase ^ PrefixWidth)

-----------------------------------------------------------------------------
\* The send path (send_datagram, socket_write).

\* prefix_bytes without the swap_le: the host's byte order goes on the wire.
prefix_bytes_no_swap(size, be) == ObjectBytes(size, be)

\* dgsize_t len = swap_le(dg->size());  ... buffer((uint8_t*)&len, sizeof(dgsize_t))
prefix_bytes(size, be) == ObjectBytes(swap_le(size, be), be)

\* The gather list built by send_datagram: the prefix, then the payload.
gather(dg, be) == <<prefix_bytes(DgSize(dg), be), dg>>

\* write(*m_socket, buffers) / write(*m_secure_socket, buffers): the bytes of
\* the buffers reach the stream in list order.
socket_write(buffers) == buffers[1] \o buffers[2]

-----------------------------------------------------------------------------
\* The consumer (NetworkHandler).

receive_datagram(dg) == delivered' = Append(delivered, dg)

\* What one receive_disconnect(ec) call looks like from outside.
Notification(ec) ==
    [cause       |-> ec,              \* the argument of the call
     trigger     |-> rec,             \* handle_disconnect's own argument
     open        |-> sock_open,       \* is_open() during the call
     ndelivered  |-> Len(delivered),
     started     |-> discStarted,     \* disconnect(ec) calls begun so far
     doneAtEntry |-> hdEntry.done]    \* ... returned when handle_disconnect began

receive_disconnect(ec) == notifications' = Append(notifications, Notification(ec))

-----------------------------------------------------------------------------
\* disconnect(ec), run in one piece: by a thread that already holds m_lock at
\* a point where no other thread is inside a callback.
disconnect(ec) ==
    /\ m_local_disconnect' = TRUE
    /\ m_disconnect_error' = ec
    /\ sock_open' = FALSE
    /\ discStarted' = Append(discStarted, ec)
    /\ discDone' = discDone + 1

\* async_receive without the `else`: in payload mode the prefix read is
\* issued as well.
async_receive_no_else(thrown) ==
    IF thrown = Success
    THEN /\ reads' = reads \o
                (IF m_is_data
                 THEN <<[kind |-> "data", len |-> m_data_size, open |-> sock_open]>>
                 ELSE <<>>) \o
                <<[kind |-> "size", len |-> PrefixWidth, open |-> sock_open]>>
         /\ UNCHANGED <<m_local_disconnect, m_disconnect_error, sock_open,
                        discStarted, discDone>>
    ELSE /\ disconnect(thrown)
         /\ UNCHANGED reads

\* async_receive: hand one read to the reactor; `thrown` is what socket_read
\* throws (Success: nothing).
async_receive(thrown) ==
    IF thrown = Success
    THEN /\ reads' = Append(reads,
                [kind |-> IF m_is_data THEN "data" ELSE "size",
                 len  |-> IF m_is_data THEN m_data_size ELSE PrefixWidth,
                 open |-> sock_open])
         /\ UNCHANGED <<m_local_disconnect, m_disconnect_error, sock_open,
                        discStarted, discDone>>
    ELSE /\ disconnect(thrown)
         /\ UNCHANGED reads

\* determine_endpoints: both queries write the same ec, so the value tested
\* is the one the local-address query left.
determine_endpoints_ec(remote_fails, local_fails) ==
    IF local_fails THEN ENOTCONN ELSE Success

\* initialize(tcp::socket*) after its m_socket check (the options it sets on
\* the socket are not state of the endpoint).
initialize_socket(remote_fails, local_fails, thrown) ==
    /\ m_socket' = "socket"
    /\ m_remote' = IF remote_fails THEN NoAddr ELSE PeerAddr
    /\ m_local' = IF local_fails THEN NoAddr ELSE SelfAddr
    /\ IF determine_endpoints_ec(remote_fails, local_fails) # Success
       THEN /\ disconnect(determine_endpoints_ec(remote_fails, local_fails))
            /\ UNCHANGED reads
       ELSE async_receive(thrown)

\* A public call and how it ended.  window, open: for is_connected() only.
Call(op, result) == [op |-> op, result |-> result, window |-> FALSE, open |-> FALSE]

Alive == life = "alive"
Budget == ncalls + Len(peerSent) < MaxEvents
UserIdle == upc = "idle"

\* A public call that throws std::logic_error and touches nothing.
throw_logic_error(op) ==
    /\ last_call' = Call(op, "logic_error")
    /\ UNCHANGED <<endpoint, record, rxstate, sock_open, reads, discStarted, discDone>>

initialize ==
    /\ Alive /\ UserIdle
    /\ IF m_socket # "null"
       THEN /\ Budget
            /\ ncalls' = ncalls + 1
            /\ throw_logic_error("initialize")
       ELSE /\ \E remote_fails, local_fails \in BOOLEAN, thrown \in {Success, EBADF} :
                 initialize_socket(remote_fails, local_fails, thrown)
            /\ last_call' = Call("initialize", "ok")
            /\ UNCHANGED <<m_secure_socket, m_ssl_enabled, m_disconnect_handled,
                           rxstate, ncalls>>
    /\ UNCHANGED <<wire, sent, upc, uec, rpc, rec, life, delivered, notifications,
                   peerSent, hdEntry, shortRead, maxLenSeen, capHigh>>

\* initialize(ssl::stream*) that records the stream before it checks m_socket.
initialize_ssl_late_check ==
    /\ Alive /\ UserIdle
    /\ m_ssl_enabled' = TRUE
    /\ m_secure_socket' = "stream"
    /\ IF m_socket # "null"
       THEN /\ Budget
            /\ ncalls' = ncalls + 1
            /\ last_call' = Call("initialize_ssl", "logic_error")
            /\ UNCHANGED <<m_socket, m_remote, m_local, record, rxstate, sock_open,
                           reads, discStarted, discDone>>
       ELSE /\ \E remote_fails, local_fails \in BOOLEAN, thrown \in {Success, EBADF} :
                 initialize_socket(remote_fails, local_fails, thrown)
            /\ last_call' = Call("initialize_ssl", "ok")
            /\ UNCHANGED <<m_disconnect_handled, rxstate, ncalls>>
    /\ UNCHANGED <<wire, sent, upc, uec, rpc, rec, life, delivered, notifications,
                   peerSent, hdEntry, shortRead, maxLenSeen, capHigh>>

initialize_ssl ==
    /\ Alive /\ UserIdle
    /\ IF m_socket # "null"
       THEN /\ Budget
            /\ ncalls' = ncalls + 1
            /\ throw_logic_error("initialize_ssl")
       ELSE /\ m_ssl_enabled' = TRUE
            /\ m_secure_socket' = "stream"
            /\ \E remote_fails, local_fails \in BOOLEAN, thrown \in {Success, EBADF} :
                 initialize_socket(remote_fails, local_fails, thrown)
            /\ last_call' = Call("initialize_ssl", "ok")
            /\ UNCHANGED <<m_disconnect_handled, rxstate, ncalls>>
    /\ UNCHANGED <<wire, sent, upc, uec, rpc, rec, life, delivered, notifications,
                   peerSent, hdEntry, shortRead, maxLenSeen, capHigh>>

-----------------------------------------------------------------------------
\* disconnect(ec) on the user thread, one statement per step: m_lock is held
\* (upc # "idle") from the first step to the last, but the reactor thread's
\* handle_disconnect reads the record without m_lock.

\* disconnect(ec) that records the cause and closes without setting
\* m_local_disconnect.
disconnect_begin_no_flag(ec) ==
    /\ UNCHANGED m_local_disconnect
    /\ discStarted' = Append(discStarted, ec)
    /\ IF m_socket = "null"
       THEN /\ m_disconnect_error' = ec
            /\ life' = "null_deref"
            /\ UNCHANGED <<upc, uec>>
       ELSE /\ upc' = "disc_error"
            /\ uec' = ec
            /\ UNCHANGED <<m_disconnect_error, life>>

\* disconnect() is disconnect(ec) with a default-constructed ec (Success).
disconnect_begin(ec) ==
    /\ m_local_disconnect' = TRUE
    /\ discStarted' = Append(discStarted, ec)
    /\ IF m_socket = "null"
       THEN \* m_socket->close() on a null pointer
            /\ m_disconnect_error' = ec
            /\ life' = "null_deref"
            /\ UNCHANGED <<upc, uec>>
       ELSE /\ upc' = "disc_error"
            /\ uec' = ec
            /\ UNCHANGED <<m_disconnect_error, life>>

disconnect_call ==
    /\ Alive /\ UserIdle
    /\ Budget
    /\ ncalls' = ncalls + 1
    /\ \E ec \in LocalCauses : disconnect_begin(ec)
    /\ last_call' = Call("disconnect", "ok")
    /\ UNCHANGED <<endpoint, m_disconnect_handled, rxstate, sock_open, reads, wire,
                   sent, rpc, rec, delivered, notifications, peerSent, discDone,
                   hdEntry, shortRead, maxLenSeen, capHigh>>

disconnect_error ==
    /\ Alive /\ upc = "disc_error"
    /\ m_disconnect_error' = uec
    /\ upc' = "disc_close"
    /\ UNCHANGED <<endpoint, m_disconnect_handled, m_local_disconnect, rxstate,
                   sock_open, reads, wire, sent, uec, rpc, rec, life, last_call,
                   ncalls, delivered, notifications, history>>

disconnect_close ==
    /\ Alive /\ upc = "disc_close"
    /\ sock_open' = FALSE
    /\ upc' = "idle"
    /\ uec' = Success
    /\ discDone' = discDone + 1
    /\ UNCHANGED <<endpoint, record, rxstate, reads, wire, sent, rpc, rec, life,
                   last_call, ncalls, delivered, notifications, peerSent,
                   discStarted, hdEntry, shortRead, maxLenSeen, capHigh>>

\* send_datagram whose catch block records the error and leaves the socket
\* open.
send_datagram_keeps_open(dg, thrown, be) ==
    IF m_socket = "null"
    THEN /\ life' = "null_deref"
         /\ UNCHANGED <<sent, m_local_disconnect, m_disconnect_error, discStarted,
                        upc, uec>>
    ELSE IF ~sock_open
    THEN disconnect_begin(EBADF) /\ UNCHANGED sent
    ELSE IF thrown # Success
    THEN /\ m_local_disconnect' = TRUE
         /\ m_disconnect_error' = thrown
         /\ discStarted' = Append(discStarted, thrown)
         /\ UNCHANGED <<sent, upc, uec, life>>
    ELSE /\ sent' = sent \o socket_write(gather(dg, be))
         /\ UNCHANGED <<m_local_disconnect, m_disconnect_error, discStarted,
                        upc, uec, life>>

\* send_datagram.  On a closed socket non_blocking(true) throws; on an open
\* one the write succeeds or throws `thrown`.  Either exception is caught and
\* handed to disconnect(err.code()); the call returns normally.
send_datagram(dg, thrown, be) ==
    IF m_socket = "null"
    THEN \* m_socket->non_blocking(true) on a null pointer
         /\ life' = "null_deref"
         /\ UNCHANGED <<sent, m_local_disconnect, m_disconnect_error, discStarted,
                        upc, uec>>
    ELSE IF ~sock_open
    THEN disconnect_begin(EBADF) /\ UNCHANGED sent
    ELSE IF thrown # Success
    THEN disconnect_begin(thrown) /\ UNCHANGED sent
    ELSE /\ sent' = sent \o socket_write(gather(dg, be))
         /\ UNCHANGED <<m_local_disconnect, m_disconnect_error, discStarted,
                        upc, uec, life>>

\* The datagram this endpoint's user sends.
SendPayload == <<101>>

send_datagram_call ==
    /\ Alive /\ UserIdle
    /\ Budget
    /\ ncalls' = ncalls + 1
    /\ \E thrown \in {Success, EPIPE}, be \in BOOLEAN :
          send_datagram(SendPayload, thrown, be)
    /\ last_call' = Call("send_datagram", "ok")
    /\ UNCHANGED <<endpoint, m_disconnect_handled, rxstate, sock_open, reads, wire,
                   rpc, rec, delivered, notifications, peerSent, discDone,
                   hdEntry, shortRead, maxLenSeen, capHigh>>

\* is_connected answered from the disconnect record instead of the socket.
is_connected_from_record == ~m_disconnect_handled

\* is_connected(): m_socket->is_open(), under m_lock.
is_connected == sock_open

is_connected_call ==
    /\ Alive /\ UserIdle
    /\ Budget
    /\ ncalls' = ncalls + 1
    /\ IF m_socket = "null"
       THEN /\ life' = "null_deref"
            /\ UNCHANGED last_call
       ELSE /\ last_call' = [op |-> "is_connected",
                             result |-> IF is_connected THEN "true" ELSE "false",
                             \* a local disconnect has closed the transport and
                             \* the consumer has not been notified yet
                             window |-> discDone > 0 /\ notifications = <<>>,
                             open |-> sock_open]
            /\ UNCHANGED life
    /\ UNCHANGED <<endpoint, record, rxstate, sock_open, reads, wire, sent, upc, uec,
                   rpc, rec, delivered, notifications, history>>

\* ~NetworkClient().  The last shared_ptr goes only when no read holds one
\* (every pending read and running callback keeps shared_from_this()).
\* `asserts`: whether the build keeps assert() (NDEBUG not defined).
destroy ==
    /\ Alive /\ UserIdle
    /\ rpc = "idle" /\ reads = <<>>
    /\ \E asserts \in BOOLEAN :
          life' = IF ~asserts THEN "destroyed"
                  ELSE IF m_socket = "null" THEN "null_deref"
                  ELSE IF is_connected THEN "assert_failed"
                  ELSE "destroyed"
    /\ UNCHANGED <<endpoint, record, rxstate, sock_open, reads, wire, sent, upc, uec,
                   rpc, rec, last_call, ncalls, delivered, notifications, history>>

-----------------------------------------------------------------------------
\* The reactor thread: completion callbacks.

\* handle_disconnect that never sets m_disconnect_handled.
handle_disconnect_forgets_handled(ec) ==
    IF m_disconnect_handled
    THEN /\ rpc' = "idle"
         /\ UNCHANGED <<m_disconnect_handled, rec, hdEntry>>
    ELSE /\ UNCHANGED m_disconnect_handled
         /\ rpc' = "hd_connected"
         /\ rec' = ec
         /\ hdEntry' = [started |-> Len(discStarted), done |-> discDone]

\* handle_disconnect, up to the is_connected() call (no lock taken).
handle_disconnect(ec) ==
    IF m_disconnect_handled
    THEN /\ rpc' = "idle"
         /\ UNCHANGED <<m_disconnect_handled, rec, hdEntry>>
    ELSE /\ m_disconnect_handled' = TRUE
         /\ rpc' = "hd_connected"
         /\ rec' = ec
         /\ hdEntry' = [started |-> Len(discStarted), done |-> discDone]

\* handle_disconnect that leaves the transport as it finds it.
handle_disconnect_close_skipped ==
    /\ Alive /\ rpc = "hd_connected" /\ UserIdle
    /\ rpc' = "hd_local"
    /\ UNCHANGED <<endpoint, record, rxstate, sock_open, reads, wire, sent, upc, uec,
                   rec, life, last_call, ncalls, delivered, notifications, history>>

\* if(is_connected()) m_socket->close();   is_connected() takes m_lock.
handle_disconnect_close ==
    /\ Alive /\ rpc = "hd_connected" /\ UserIdle
    /\ sock_open' = IF is_connected THEN FALSE ELSE sock_open
    /\ rpc' = "hd_local"
    /\ UNCHANGED <<endpoint, record, rxstate, reads, wire, sent, upc, uec, rec, life,
                   last_call, ncalls, delivered, notifications, history>>

\* handle_disconnect's caller without its `return`: after the notification
\* the callback goes on to async_receive().
handle_disconnect_branch_no_return ==
    /\ Alive /\ rpc = "hd_local"
    /\ IF m_local_disconnect
       THEN rpc' = "hd_error" /\ UNCHANGED notifications
       ELSE rpc' = "async_receive" /\ receive_disconnect(rec)
    /\ UNCHANGED <<endpoint, record, rxstate, sock_open, reads, wire, sent, upc, uec,
                   rec, life, last_call, ncalls, delivered, history>>

\* handle_disconnect that always reports the triggering error.
handle_disconnect_branch_ignores_local ==
    /\ Alive /\ rpc = "hd_local"
    /\ rpc' = "idle" /\ receive_disconnect(rec)
    /\ UNCHANGED <<endpoint, record, rxstate, sock_open, reads, wire, sent, upc, uec,
                   rec, life, last_call, ncalls, delivered, history>>

\* if(m_local_disconnect) ... else receive_disconnect(ec);   no lock held.
handle_disconnect_branch ==
    /\ Alive /\ rpc = "hd_local"
    /\ IF m_local_disconnect
       THEN rpc' = "hd_error" /\ UNCHANGED notifications
       ELSE rpc' = "idle" /\ receive_disconnect(rec)
    /\ UNCHANGED <<endpoint, record, rxstate, sock_open, reads, wire, sent, upc, uec,
                   rec, life, last_call, ncalls, delivered, history>>

\* The local branch without its `else`: control falls through to the second
\* receive_disconnect call.
handle_disconnect_local_falls_through ==
    /\ Alive /\ rpc = "hd_error"
    /\ notifications' = notifications \o
                            <<Notification(m_disconnect_error), Notification(rec)>>
    /\ rpc' = "idle"
    /\ UNCHANGED <<endpoint, record, rxstate, sock_open, reads, wire, sent, upc, uec,
                   rec, life, last_call, ncalls, delivered, history>>

\* receive_disconnect(m_disconnect_error);   no lock held.
handle_disconnect_local ==
    /\ Alive /\ rpc = "hd_error"
    /\ receive_disconnect(m_disconnect_error)
    /\ rpc' = "idle"
    /\ UNCHANGED <<endpoint, record, rxstate, sock_open, reads, wire, sent, upc, uec,
                   rec, life, last_call, ncalls, delivered, history>>

\* new uint8_t[n]
NewBuf(n) == [i \in 1..n |-> Uninit]

\* m_data_size = swap_le(*(dgsize_t*)m_size_buf);
decode_prefix(size_buf, be) == swap_le(ObjectValue(size_buf, be), be)

\* receive_size without the bytes_transferred check.
receive_size_no_length_check(ec, bytes_transferred, size_buf, be) ==
    IF ec # Success
    THEN /\ handle_disconnect(ec)
         /\ UNCHANGED <<m_data_buf, m_data_size, m_is_data, maxLenSeen, capHigh>>
    ELSE LET old_size == m_data_size
             \* whatever the unwritten bytes of m_size_buf held: here zeros
             new_size == decode_prefix([i \in 1..PrefixWidth |->
                            IF size_buf[i] = Uninit THEN 0 ELSE size_buf[i]], be)
             new_buf == IF new_size > old_size THEN NewBuf(new_size) ELSE m_data_buf
         IN  /\ m_data_size' = new_size
             /\ m_data_buf' = new_buf
             /\ m_is_data' = TRUE
             /\ rpc' = "async_receive"
             /\ maxLenSeen' = Max(maxLenSeen, new_size)
             /\ capHigh' = Max(capHigh, Len(new_buf))
             /\ UNCHANGED <<m_disconnect_handled, rec, hdEntry>>

\* receive_size that grows the buffer only past the previous length plus one
\* (`>` written with the operands off by one).
receive_size_late_growth(ec, bytes_transferred, size_buf, be) ==
    IF ec # Success
    THEN /\ handle_disconnect(ec)
         /\ UNCHANGED <<m_data_buf, m_data_size, m_is_data, maxLenSeen, capHigh>>
    ELSE IF bytes_transferred # PrefixWidth
    THEN /\ handle_disconnect(EPIPE)
         /\ UNCHANGED <<m_data_buf, m_data_size, m_is_data, maxLenSeen, capHigh>>
    ELSE LET old_size == m_data_size
             new_size == decode_prefix(size_buf, be)
             new_buf == IF new_size > old_size + 1 THEN NewBuf(new_size) ELSE m_data_buf
         IN  /\ m_data_size' = new_size
             /\ m_data_buf' = new_buf
             /\ m_is_data' = TRUE
             /\ rpc' = "async_receive"
             /\ maxLenSeen' = Max(maxLenSeen, new_size)
             /\ capHigh' = Max(capHigh, Len(new_buf))
             /\ UNCHANGED <<m_disconnect_handled, rec, hdEntry>>

\* receive_size, up to its async_receive() call.  size_buf is m_size_buf as
\* the read left it.
receive_size(ec, bytes_transferred, size_buf, be) ==
    IF ec # Success
    THEN /\ handle_disconnect(ec)
         /\ UNCHANGED <<m_data_buf, m_data_size, m_is_data, maxLenSeen, capHigh>>
    ELSE IF bytes_transferred # PrefixWidth
    THEN /\ handle_disconnect(EPIPE)
         /\ UNCHANGED <<m_data_buf, m_data_size, m_is_data, maxLenSeen, capHigh>>
    ELSE LET old_size == m_data_size
             new_size == decode_prefix(size_buf, be)
             new_buf == IF new_size > old_size THEN NewBuf(new_size) ELSE m_data_buf
         IN  /\ m_data_size' = new_size
             /\ m_data_buf' = new_buf
             /\ m_is_data' = TRUE
             /\ rpc' = "async_receive"
             /\ maxLenSeen' = Max(maxLenSeen, new_size)
             /\ capHigh' = Max(capHigh, Len(new_buf))
             /\ UNCHANGED <<m_disconnect_handled, rec, hdEntry>>

\* receive_data that forgets m_is_data = false.
receive_data_keeps_mode(ec, bytes_transferred, data_buf) ==
    IF ec # Success
    THEN /\ handle_disconnect(ec)
         /\ UNCHANGED <<m_is_data, delivered>>
    ELSE IF bytes_transferred # m_data_size
    THEN /\ handle_disconnect(EPIPE)
         /\ UNCHANGED <<m_is_data, delivered>>
    ELSE /\ receive_datagram(SubSeq(data_buf, 1, m_data_size))
         /\ rpc' = "async_receive"
         /\ UNCHANGED <<m_is_data, m_disconnect_handled, rec, hdEntry>>

\* receive_data, up to its async_receive() call.  data_buf is m_data_buf as
\* the read left it; Datagram::create copies its first m_data_size bytes.
receive_data(ec, bytes_transferred, data_buf) ==
    IF ec # Success
    THEN /\ handle_disconnect(ec)
         /\ UNCHANGED <<m_is_data, delivered>>
    ELSE IF bytes_transferred # m_data_size
    THEN /\ handle_disconnect(EPIPE)
         /\ UNCHANGED <<m_is_data, delivered>>
    ELSE /\ m_is_data' = FALSE
         /\ receive_datagram(SubSeq(data_buf, 1, m_data_size))
         /\ rpc' = "async_receive"
         /\ UNCHANGED <<m_disconnect_handled, rec, hdEntry>>

\* The callback bound by socket_read runs with what the read produced: the
\* first `n` bytes of the buffer overwritten by `bytes`.
Fill(buf, bytes) ==
    [i \in 1..Len(buf) |-> IF i <= Len(bytes) THEN bytes[i] ELSE buf[i]]

callback(rd, ec, bytes, be) ==
    IF rd.kind = "size"
    THEN /\ m_size_buf' = Fill(m_size_buf, bytes)
         /\ receive_size(ec, Len(bytes), Fill(m_size_buf, bytes), be)
         /\ UNCHANGED delivered
    ELSE /\ m_data_buf' = Fill(m_data_buf, bytes)
         /\ receive_data(ec, Len(bytes), Fill(m_data_buf, bytes))
         /\ UNCHANGED <<m_size_buf, m_data_size, maxLenSeen, capHigh>>

ReactorIdle == Alive /\ rpc = "idle" /\ reads # <<>>

\* async_read completes in full: the whole length was read.
read_completes ==
    /\ ReactorIdle
    /\ LET rd == Head(reads) IN
        /\ rd.open \/ rd.len = 0
        /\ Len(wire) >= rd.len
        /\ wire' = SubSeq(wire, rd.len + 1, Len(wire))
        /\ \E be \in BOOLEAN : callback(rd, Success, SubSeq(wire, 1, rd.len), be)
    /\ reads' = Tail(reads)
    /\ UNCHANGED <<endpoint, m_local_disconnect, m_disconnect_error, sock_open, sent,
                   upc, uec, life, last_call, ncalls, notifications, peerSent,
                   discStarted, discDone, shortRead>>

\* async_read completes with an error: the socket was closed before the read
\* was issued (bad descriptor), closed under it (aborted), or the peer went.
ReadErrors(rd) ==
    IF ~rd.open THEN {EBADF}
    ELSE IF ~sock_open THEN {ECANCELED, EOF}
    ELSE {EOF}

read_fails ==
    /\ ReactorIdle
    /\ \E ec \in ReadErrors(Head(reads)), be \in BOOLEAN :
          callback(Head(reads), ec, <<>>, be)
    /\ reads' = Tail(reads)
    /\ UNCHANGED <<endpoint, m_local_disconnect, m_disconnect_error, sock_open, wire,
                   sent, upc, uec, life, last_call, ncalls, notifications, peerSent,
                   discStarted, discDone, shortRead>>

\* A completion without error that transferred fewer bytes than asked for.
read_short ==
    /\ ReactorIdle
    /\ LET rd == Head(reads) IN
        /\ rd.open
        /\ \E k \in 0..(rd.len - 1), be \in BOOLEAN :
              /\ k <= Len(wire)
              /\ wire' = SubSeq(wire, k + 1, Len(wire))
              /\ callback(rd, Success, SubSeq(wire, 1, k), be)
    /\ shortRead' = IF shortRead = <<>>
                    THEN <<[ndelivered |-> Len(delivered), nsent |-> Len(peerSent)]>>
                    ELSE shortRead
    /\ reads' = Tail(reads)
    /\ UNCHANGED <<endpoint, m_local_disconnect, m_disconnect_error, sock_open, sent,
                   upc, uec, life, last_call, ncalls, notifications, peerSent,
                   discStarted, discDone>>

\* The async_receive() call that ends receive_size and receive_data; it takes
\* m_lock.
async_receive_call ==
    /\ Alive /\ rpc = "async_receive" /\ UserIdle
    /\ \E thrown \in {Success, EBADF} : async_receive(thrown)
    /\ rpc' = "idle"
    /\ UNCHANGED <<endpoint, m_disconnect_handled, rxstate, wire, sent, upc, uec, rec,
                   life, last_call, ncalls, delivered, notifications, peerSent,
                   hdEntry, shortRead, maxLenSeen, capHigh>>

\* The consumer calls disconnect(ec) from inside receive_datagram, on the
\* reactor thread, before receive_data goes on to async_receive().
consumer_disconnect ==
    /\ Alive /\ rpc = "async_receive" /\ ~m_is_data /\ UserIdle
    /\ Budget
    /\ ncalls' = ncalls + 1
    /\ \E ec \in LocalCauses : disconnect(ec)
    /\ last_call' = Call("disconnect", "ok")
    /\ UNCHANGED <<endpoint, m_disconnect_handled, rxstate, reads, wire, sent, upc,
                   uec, rpc, rec, life, delivered, notifications,
                   peerSent, hdEntry, shortRead, maxLenSeen, capHigh>>

\* The peer endpoint sends its next message with the same send path.  The
\* bytes reach this side's socket only while that socket is open.
PeerPayload(k, n) == [i \in 1..n |-> 16 * k + i]

peer_send ==
    /\ Alive /\ Budget
    /\ sock_open
    /\ \E n \in 0..MaxLen, be \in BOOLEAN :
          LET dg == PeerPayload(Len(peerSent) + 1, n) IN
            /\ wire' = wire \o socket_write(gather(dg, be))
            /\ peerSent' = Append(peerSent, dg)
    /\ UNCHANGED <<endpoint, record, rxstate, sock_open, reads, sent, upc, uec, rpc,
                   rec, life, last_call, ncalls, delivered, notifications,
                   discStarted, discDone, hdEntry, shortRead, maxLenSeen, capHigh>>

-----------------------------------------------------------------------------
\* The state the constructor and the member initialisers leave.
Init ==
    /\ m_socket = "null"
    /\ m_secure_socket = "null"
    /\ m_ssl_enabled = FALSE
    /\ m_remote = NoAddr
    /\ m_local = NoAddr
    /\ m_disconnect_handled = FALSE
    /\ m_local_disconnect = FALSE
    /\ m_disconnect_error = Success
    /\ m_size_buf = NewBuf(PrefixWidth)
    /\ m_data_buf = <<>>
    /\ m_data_size = 0
    /\ m_is_data = FALSE
    /\ sock_open = TRUE
    /\ reads = <<>>
    /\ wire = <<>>
    /\ sent = <<>>
    /\ upc = "idle"
    /\ uec = Success
    /\ rpc = "idle"
    /\ rec = Success
    /\ life = "alive"
    /\ last_call = Call("construct", "ok")
    /\ ncalls = 0
    /\ delivered = <<>>
    /\ notifications = <<>>
    /\ peerSent = <<>>
    /\ discStarted = <<>>
    /\ discDone = 0
    /\ hdEntry = [started |-> 0, done |-> 0]
    /\ shortRead = <<>>
    /\ maxLenSeen = 0
    /\ capHigh = 0

Next ==
    \/ initialize
    \/ initialize_ssl
    \/ disconnect_call
    \/ disconnect_error
    \/ disconnect_close
    \/ send_datagram_call
    \/ is_connected_call
    \/ destroy
    \/ read_completes
    \/ read_fails
    \/ read_short
    \/ handle_disconnect_close
    \/ handle_disconnect_branch
    \/ handle_disconnect_local
    \/ async_receive_call
    \/ consumer_disconnect
    \/ peer_send

Spec == Init /\ [][Next]_vars

-----------------------------------------------------------------------------
\* Properties.

Notified == notifications # <<>>
Bound == m_socket # "null"

\* Nothing is left that could still call handle_disconnect: no read is with
\* the reactor, no callback is running, no public call is in progress.
Quiescent == reads = <<>> /\ rpc = "idle" /\ upc = "idle"

\* No read error, no short read, no failed write or read start, and no
\* disconnect request so far.
ErrorFree == ~m_disconnect_handled /\ discStarted = <<>>

\* The wire format of section 6: a little-endian prefix of PrefixWidth bytes,
\* then the payload.
RECURSIVE WireFormat(_)
WireFormat(msgs) ==
    IF msgs = <<>> THEN <<>>
    ELSE LowFirst(Len(Head(msgs)), PrefixWidth) \o Head(msgs) \o WireFormat(Tail(msgs))

Undelivered == SubSeq(peerSent, Len(delivered) + 1, Len(peerSent))

\* Lengths on both sides of a byte boundary of the prefix.
PrefixSamples == {0, 1, 255, 256, 257, 4660, 65535}

\* C1: receive_disconnect is invoked at most once, whatever mix of local
\* disconnects, read errors, short reads and failed sends occurs.
C1_AtMostOneNotification == Len(notifications) <= 1

\* Two local triggers (a disconnect request and another request or failed
\* send) and an aborted read, and one notification.
C1_Witness ==
    /\ Len(notifications) = 1
    /\ Len(discStarted) >= 2
    /\ notifications[1].trigger = ECANCELED

\* C2: once the transport of a bound endpoint is closed, receive_disconnect
\* is invoked: no execution ends (nothing pending, nothing running) with the
\* transport closed and the consumer never notified.
C2_ClosedIsNotified == (Bound /\ ~sock_open /\ Quiescent) => Notified

\* C3: when disconnect(C1) has returned and is the only disconnect request,
\* and a read then completes into handle_disconnect with an error C2, the
\* cause given to receive_disconnect is C1.
C3_LocalCausePrecedence ==
    \A i \in DOMAIN notifications :
        LET n == notifications[i] IN
        (Len(n.started) = 1 /\ n.doneAtEntry = 1) => n.cause = n.started[1]

\* disconnect(timed_out), then the pending read completes aborted.
C3_Witness ==
    /\ Notified
    /\ notifications[1].started = <<"timed_out">>
    /\ notifications[1].doneAtEntry = 1
    /\ notifications[1].trigger = ECANCELED
    /\ notifications[1].cause = "timed_out"

\* C4: on an error-free stream the messages are delivered in the order sent,
\* one receive_datagram call each, all of them once the stream is read to its
\* end, and receive_disconnect is not invoked.
C4_Ordering ==
    ErrorFree =>
        /\ ~Notified
        /\ Len(delivered) <= Len(peerSent)
        /\ \A i \in DOMAIN delivered : delivered[i] = peerSent[i]
        /\ (wire = <<>> /\ ~m_is_data) => delivered = peerSent

\* Three different messages, all delivered, in the order sent.
C4_Witness ==
    /\ ErrorFree
    /\ Len(delivered) = 3
    /\ delivered = peerSent
    /\ delivered[1] # delivered[2] /\ delivered[2] # delivered[3]

\* C5: after a short read (prefix or payload) handle_disconnect is entered
\* with broken_pipe, that is the cause delivered unless a local disconnect
\* had been requested, no read is issued any more and receive_datagram is
\* not called again, whatever the peer sends afterwards.
C5_ShortRead ==
    shortRead # <<>> =>
        /\ m_disconnect_handled
        /\ reads = <<>>
        /\ rpc # "async_receive"
        /\ Len(delivered) = shortRead[1].ndelivered
        /\ \A i \in DOMAIN notifications :
              /\ notifications[i].trigger = EPIPE
              /\ ~notifications[i].open
              /\ notifications[i].started = <<>> => notifications[i].cause = EPIPE

\* A short read, the broken_pipe notification, and a later message of the
\* peer lying unread on the wire.
C5_Witness ==
    /\ shortRead # <<>>
    /\ Notified
    /\ notifications[1].cause = EPIPE
    /\ Len(peerSent) > shortRead[1].nsent
    /\ wire # <<>>

\* C6: the capacity of m_data_buf never decreases and is at least the
\* largest length prefix received so far.
C6_BufferNeverShrinks ==
    /\ Len(m_data_buf) = capHigh
    /\ Len(m_data_buf) >= maxLenSeen

\* C7: what send_datagram writes is the wire format (also for lengths that
\* need the high byte of the prefix), and the receive state machine turns each
\* frame into one receive_datagram call with exactly the payload: unless a
\* short read has broken the framing, the unread bytes are the frames of the
\* messages not delivered yet.
C7_RoundTrip ==
    \* the prefix codec does not read the state: it is evaluated in the states
    \* before the peer's first message only
    /\ peerSent = <<>> =>
          \A n \in PrefixSamples, be1, be2 \in BOOLEAN :
              /\ prefix_bytes(n, be1) = LowFirst(n, PrefixWidth)
              /\ decode_prefix(prefix_bytes(n, be1), be2) = n
    /\ \A i \in DOMAIN delivered : i <= Len(peerSent) /\ delivered[i] = peerSent[i]
    /\ shortRead = <<>> =>
          IF m_is_data
          THEN /\ Undelivered # <<>>
               /\ m_data_size = Len(Head(Undelivered))
               /\ wire = Head(Undelivered) \o WireFormat(Tail(Undelivered))
          ELSE wire = WireFormat(Undelivered)

\* An empty payload and a payload of MaxLen bytes, both delivered.
C7_Witness ==
    /\ \E i \in DOMAIN delivered : delivered[i] = <<>>
    /\ \E i \in DOMAIN delivered : Len(delivered[i]) = MaxLen
    /\ delivered = peerSent

\* C8: initialize(socket) or initialize(stream) on an endpoint that already
\* has a transport throws std::logic_error and changes nothing of the
\* endpoint.
C8_DoubleBind ==
    [][(Bound /\ ncalls' = ncalls + 1
              /\ last_call'.op \in {"initialize", "initialize_ssl"})
        => /\ last_call'.result = "logic_error"
           /\ UNCHANGED <<endpoint, record, rxstate, sock_open, reads>>]_vars

\* initialize(stream) refused on a plain endpoint that is already disconnected.
C8_Witness ==
    /\ last_call = Call("initialize_ssl", "logic_error")
    /\ ~m_ssl_enabled
    /\ ~sock_open
    /\ Notified

\* C9: the transport is closed during every receive_disconnect call and in
\* every state after it, so a destructor run after the notification passes
\* its assertion.
C9_ClosedOnNotification ==
    /\ \A i \in DOMAIN notifications : ~notifications[i].open
    /\ Notified => ~is_connected
    /\ Notified => life # "assert_failed"

\* The peer closed, nobody called disconnect, and the endpoint was destroyed
\* after the notification.
C9_Witness ==
    /\ Notified
    /\ notifications[1].cause = EOF
    /\ discStarted = <<>>
    /\ life = "destroyed"

\* C10: is_connected() returns the open state of the transport; called after
\* a local disconnect has closed it and before the notification, it is false.
C10_IsConnectedLive ==
    last_call.op = "is_connected" =>
        /\ last_call.result = (IF last_call.open THEN "true" ELSE "false")
        /\ last_call.window => last_call.result = "false"

\* is_connected() called in the window, m_disconnect_handled still false.
C10_Witness ==
    /\ last_call.op = "is_connected"
    /\ last_call.window
    /\ ~m_disconnect_handled
    /\ m_local_disconnect

\* A write inside send_datagram has failed (broken_pipe enters the disconnect
\* requests only there).
WriteFailed == \E i \in DOMAIN discStarted : discStarted[i] = EPIPE

\* C11: a send_datagram whose write fails returns normally, the transport is
\* closed once it has returned, the call itself does not call the consumer,
\* and when it is the only disconnect request the cause the consumer gets in
\* the one receive_disconnect is the write's error.
C11_SendFailureSwallowed ==
    /\ last_call.op = "send_datagram" => last_call.result = "ok"
    /\ (WriteFailed /\ UserIdle) => ~sock_open
    /\ (WriteFailed /\ Notified) => Len(notifications) = 1
    /\ \A i \in DOMAIN notifications :
          LET n == notifications[i] IN
          (n.started = <<EPIPE>> /\ n.doneAtEntry = 1) => n.cause = EPIPE

\* The failed send has returned and the pending read, aborted by the close,
\* has brought the write's error to the consumer.
C11_Witness ==
    /\ last_call = Call("send_datagram", "ok")
    /\ discStarted = <<EPIPE>>
    /\ ~sock_open
    /\ Len(notifications) = 1
    /\ notifications[1].cause = EPIPE
    /\ notifications[1].trigger = ECANCELED

\* initialize() could not find the remote or the local address: the address
\* it could not find is still the default-constructed one.
DiscoveryFailed == Bound /\ (m_remote = NoAddr \/ m_local = NoAddr)

\* C12: when the remote or the local address (or both) cannot be found
\* during initialize(), the endpoint is disconnected at once with that
\* failure as the cause, no read is ever issued and receive_datagram is never
\* called.
C12_DiscoveryFailure ==
    DiscoveryFailed =>
        /\ ~sock_open
        /\ m_local_disconnect
        /\ discStarted # <<>> /\ discStarted[1] = ENOTCONN
        /\ reads = <<>> /\ rpc = "idle"
        /\ delivered = <<>>

\* An explicit disconnect() / disconnect(ec) request of the endpoint's user.
ExplicitRequest == \E i \in DOMAIN discStarted : discStarted[i] \in LocalCauses

C14_MutualExclusion == ~(upc # "idle" /\ rpc \in {"hd_local", "hd_error"})

\* C15 as claimed: once receive_disconnect has been delivered, none of
\* m_disconnect_handled, m_local_disconnect, m_disconnect_error changes
\* again.
C15_RecordFrozen == [][Notified => record' = record]_vars

\* C15 as the code has it: once receive_disconnect has been delivered,
\* m_disconnect_handled stays true, no read completes and no further
\* notification is made; m_local_disconnect and m_disconnect_error change
\* only by the writes of a later disconnect(ec) (requested, or run by a
\* send_datagram on the closed transport).
C15_RecordAfterNotification ==
    [][Notified =>
          /\ m_disconnect_handled /\ m_disconnect_handled'
          /\ notifications' = notifications
          /\ reads' = reads
          /\ m_local_disconnect' # m_local_disconnect =>
                Len(discStarted') = Len(discStarted) + 1
          /\ m_disconnect_error' # m_disconnect_error =>
                upc = "disc_error" /\ m_disconnect_error' = uec]_vars

\* The peer closed, the consumer was notified of eof, and a disconnect
\* request made afterwards has rewritten the record.
C15_Witness ==
    /\ Notified
    /\ notifications[1].cause = EOF
    /\ notifications[1].started = <<>>
    /\ m_disconnect_handled
    /\ m_local_disconnect
    /\ m_disconnect_error = "timed_out"

\* C16: at most one read is outstanding in every state, and none while a
\* completion callback runs; a read is issued only by a first initialize() or
\* by the async_receive() call that ends a callback, one read per callback,
\* also when the consumer has called disconnect or a send has failed while
\* the callback was running.
C16_OneOutstandingRead ==
    [][/\ Len(reads') <= 1
       /\ reads' # <<>> => rpc' = "idle"
       /\ Len(reads') > Len(reads) =>
             /\ reads = <<>>
             /\ \/ ~Bound /\ Bound'
                \/ rpc = "async_receive" /\ rpc' = "idle"]_vars

\* The consumer disconnected inside receive_datagram and the callback went
\* on to issue its one read, on the closed transport.
C16_Witness ==
    /\ Len(reads) = 1
    /\ reads[1].kind = "size" /\ ~reads[1].open
    /\ Len(delivered) = 1
    /\ discStarted # <<>>
    /\ ~m_disconnect_handled

\* C17: whenever a payload read is issued or outstanding, the capacity of
\* m_data_buf is at least the length the read asks for, which is m_data_size;
\* this for every sequence of prefixes, decreasing then increasing ones and
\* a zero-length first message included.
C17_BufferHoldsPayload ==
    /\ Len(m_data_buf) >= m_data_size
    /\ \A i \in DOMAIN reads :
          reads[i].kind = "data" =>
              /\ m_is_data
              /\ reads[i].len = m_data_size
              /\ reads[i].len <= Len(m_data_buf)

\* Prefixes 2, 0, 1: the buffer has shrunk to one byte (below its earlier
\* capacity) and the payload read for the third message is outstanding.
C17_Witness ==
    /\ Len(delivered) = 2
    /\ Len(delivered[1]) = 2 /\ Len(delivered[2]) = 0
    /\ reads # <<>> /\ reads[1].kind = "data" /\ reads[1].len = 1
    /\ Len(m_data_buf) = 1
    /\ capHigh = 2

\* C18: after receive_disconnect has been invoked, receive_datagram is not
\* invoked again, no read is issued and no completion callback runs.
C18_SilentAfterNotification ==
    Notified =>
        /\ \A i \in DOMAIN notifications :
              notifications[i].ndelivered = Len(delivered)
        /\ reads = <<>>
        /\ rpc = "idle"

\* One message delivered, then a local disconnect and its notification; the
\* peer's second message lies complete on the wire and is never read.
C18_Witness ==
    /\ Notified
    /\ notifications[1].cause = "timed_out"
    /\ Len(delivered) = 1
    /\ Len(peerSent) = 2
    /\ wire = WireFormat(<<peerSent[2]>>)

\* C19: when the first disconnect request is an explicit disconnect(C1), the
\* cause given to receive_disconnect is C1, also when further requests or a
\* failed send on the closed transport followed before the notification.
\* (Stated for notifications whose handle_disconnect began after all these
\* calls had returned, so that no call overlaps it.)
C19_FirstCauseWins ==
    \A i \in DOMAIN notifications :
        LET n == notifications[i] IN
        (/\ n.started # <<>>
         /\ n.started[1] \in LocalCauses
         /\ n.doneAtEntry = Len(n.started)) => n.cause = n.started[1]

\* C20: no public operation and not the destructor dereferences a null
\* m_socket, in any reachable state, that of an endpoint constructed and
\* never initialized included.
C20_NoNullTransportUse == life # "null_deref"
====
